---------------------------- MODULE Spec2Model ----------------------------
(***************************************************************************)
(* Model of poseinterface.io: annotations_to_coco, _update_image_ids and   *)
(* _extract_frame_number (src/poseinterface/io.py), with the callers of    *)
(* the unit tests and of examples/SWC-plusmaze_to_benchmark.py.            *)
(*                                                                         *)
(* Strings that the code inspects character by character (file names) are  *)
(* tuples of one-character strings; regular expressions of the shape       *)
(* <literal>(<digit group>) are records [lit, group].  Error messages are  *)
(* tuples of their parts, in the order the code concatenates them.         *)
(***************************************************************************)
EXTENDS Integers, Sequences, FiniteSets, TLC

(***************************************************************************)
(* Bounds of the model.                                                    *)
(***************************************************************************)
\* longest run of digits in a generated file name
MaxDigits == 2
\* most images, and most annotations, in a document given to _update_image_ids
MaxImages == 2
\* most labeled frames in a loaded label set
MaxFrames == 2
\* most videos in a loaded label set
MaxVideos == 2

\* Python's None, and a value that is not None
None == [some |-> FALSE]
Some(x) == [some |-> TRUE, val |-> x]

(***************************************************************************)
(* Characters and strings.                                                 *)
(***************************************************************************)
DigitChars == {"0", "1", "2", "3", "4", "5", "6", "7", "8", "9"}

\* value of one decimal digit, as int() reads it
DigitVal(c) ==
    CASE c = "0" -> 0 [] c = "1" -> 1 [] c = "2" -> 2 [] c = "3" -> 3
      [] c = "4" -> 4 [] c = "5" -> 5 [] c = "6" -> 6 [] c = "7" -> 7
      [] c = "8" -> 8 [] c = "9" -> 9

RECURSIVE IntOfDigits(_)
\* int(s) for a non-empty string of decimal digits: base 10, most
\* significant digit first
IntOfDigits(ds) ==
    IF ds = <<>> THEN 0
    ELSE 10 * IntOfDigits(SubSeq(ds, 1, Len(ds) - 1)) + DigitVal(ds[Len(ds)])

\* the literal text "frame-" and "img"
FRAME == <<"f", "r", "a", "m", "e", "-">>
IMG == <<"i", "m", "g">>
PNG == <<".", "p", "n", "g">>

\* POSEINTERFACE_FRAME_REGEXP = r"frame-(\d+)"
POSEINTERFACE_FRAME_REGEXP == [lit |-> FRAME, group |-> "d+"]

\* the patterns the unit tests pass as frame_regexp besides the default:
\* r"img(\d*)", r"img(0\d*)", r"frame-(0\d*)"
Patterns ==
    { POSEINTERFACE_FRAME_REGEXP,
      [lit |-> IMG, group |-> "d*"],
      [lit |-> IMG, group |-> "0d*"],
      [lit |-> FRAME, group |-> "0d*"] }

(***************************************************************************)
(* re.search for the patterns above.                                       *)
(***************************************************************************)
\* the literal lit occurs in s starting at position i
LitAt(s, lit, i) ==
    /\ i + Len(lit) - 1 <= Len(s)
    /\ \A k \in 1..Len(lit) : s[i + k - 1] = lit[k]

RECURSIVE DigitRunEnd(_, _)
\* last position of the longest run of digits of s that starts at position
\* i (i - 1 when s has no digit at i): \d* is greedy
DigitRunEnd(s, i) ==
    IF i <= Len(s) /\ s[i] \in DigitChars THEN DigitRunEnd(s, i + 1) ELSE i - 1

\* the pattern matches s at start position i
MatchAt(s, pat, i) ==
    /\ LitAt(s, pat.lit, i)
    /\ LET g == i + Len(pat.lit)
       IN CASE pat.group = "d+" -> g <= Len(s) /\ s[g] \in DigitChars
            [] pat.group = "d*" -> TRUE
            [] pat.group = "0d*" -> g <= Len(s) /\ s[g] = "0"

\* the start positions at which the pattern matches
MatchStarts(s, pat) == { i \in 1..(Len(s) + 1) : MatchAt(s, pat, i) }

\* a search that keeps the last match instead of the first
ReSearchLast(pat, s) ==
    IF MatchStarts(s, pat) = {} THEN [found |-> FALSE]
    ELSE LET i == CHOOSE j \in MatchStarts(s, pat) :
                     \A k \in MatchStarts(s, pat) : j >= k
             g == i + Len(pat.lit)
         IN [found |-> TRUE, start |-> i,
             group1 |-> SubSeq(s, g, DigitRunEnd(s, g))]

\* re.search(frame_regexp, filename): "None" or the leftmost match, with
\* the text of its group 1
ReSearch(pat, s) ==
    IF MatchStarts(s, pat) = {} THEN [found |-> FALSE]
    ELSE LET i == CHOOSE j \in MatchStarts(s, pat) :
                     \A k \in MatchStarts(s, pat) : j <= k
             g == i + Len(pat.lit)
         IN [found |-> TRUE, start |-> i,
             group1 |-> SubSeq(s, g, DigitRunEnd(s, g))]

(***************************************************************************)
(* _extract_frame_number                                                   *)
(***************************************************************************)
\* the ValueError raised when the pattern has no match
NoFrameNumberError(filename, frame_regexp) ==
    [kind |-> "ValueError",
     msg |-> << "No frame number could be extracted from filename ",
                filename,
                ". Please check that the filename contains a frame number matching the provided regexp pattern '",
                frame_regexp, "'." >>]

\* int("") raises: "invalid literal for int() with base 10: ''"
InvalidLiteralError(text) ==
    [kind |-> "ValueError",
     msg |-> << "invalid literal for int() with base 10: ", text >>]

\* an extraction that returns None, as its docstring says, when the pattern
\* has no match
ExtractFrameNumberReturnsNone(filename, frame_regexp) ==
    LET match == ReSearch(frame_regexp, filename)
    IN IF ~match.found
       THEN [raised |-> FALSE, value |-> None]
       ELSE IF match.group1 = <<>>
            THEN [raised |-> TRUE, error |-> InvalidLiteralError(match.group1)]
            ELSE [raised |-> FALSE, value |-> IntOfDigits(match.group1)]

\* the outcome of _extract_frame_number(filename, frame_regexp): a returned
\* value or a raised error
ExtractFrameNumber(filename, frame_regexp) ==
    LET match == ReSearch(frame_regexp, filename)
    IN IF ~match.found
       THEN [raised |-> TRUE, error |-> NoFrameNumberError(filename, frame_regexp)]
       ELSE IF match.group1 = <<>>
            THEN [raised |-> TRUE, error |-> InvalidLiteralError(match.group1)]
            ELSE [raised |-> FALSE, value |-> IntOfDigits(match.group1)]

(***************************************************************************)
(* Documents (COCO dicts): images {id, file_name} and annotations          *)
(* {id, image_id}.  Python passes dicts by reference, so a call works on a *)
(* store of objects: a sequence of documents indexed by reference.         *)
(***************************************************************************)
\* the sequences over S of length at most n
SeqUpTo(S, n) == UNION { [1..k -> S] : k \in 0..n }

\* file names of the images of the documents given to _update_image_ids:
\* frame-1.png, frame-01.png, frame-2.png and img1.png
DocFileNames ==
    { FRAME \o <<"1">> \o PNG, FRAME \o <<"0", "1">> \o PNG,
      FRAME \o <<"2">> \o PNG, IMG \o <<"1">> \o PNG }

\* image ids and annotation image_ids of those documents: ids that are
\* also frame numbers of DocFileNames, so that old and new ids overlap
OldIds == {1, 2}

\* the documents given to _update_image_ids; annotation ids are 1, 2, ...
Docs ==
    { [images |-> imgs,
       annotations |-> [i \in 1..Len(refs) |-> [id |-> i, image_id |-> refs[i]]]] :
         imgs \in SeqUpTo([id : OldIds, file_name : DocFileNames], MaxImages),
         refs \in SeqUpTo(OldIds, MaxImages) }

\* no copy: the same object under the same reference
NoCopy(store, ref) == [store |-> store, ref |-> ref]

\* copy.deepcopy(store[ref]): a new object with the same content
DeepCopy(store, ref) ==
    [store |-> Append(store, store[ref]), ref |-> Len(store) + 1]

\* a mapping that follows chains: an old id mapped to an id that is itself
\* renamed later is mapped to the later id
DictSetChained(dict, key, value) ==
    [k \in (DOMAIN dict) \cup {key} |->
        IF k = key THEN value
        ELSE IF dict[k] = key THEN value ELSE dict[k]]

\* old_to_new_id[key] = value on a dict
DictSet(dict, key, value) ==
    [k \in (DOMAIN dict) \cup {key} |-> IF k = key THEN value ELSE dict[k]]

\* the ValueError of the uniqueness check
NotUniqueError ==
    [kind |-> "ValueError",
     msg |-> << "Extracted image IDs are not unique. Please check that the frame numbers as specified in the filename are unique." >>]

\* old_to_new_id[annot["image_id"]] on a missing key
KeyError(key) == [kind |-> "KeyError", msg |-> << "KeyError" >>, key |-> key]

\* the one element of a one-element set.  A value bound by { e : x \in {v} }
\* is computed once, where the code assigns a local once and reads it often.
Only(S) == CHOOSE x \in S : TRUE

RECURSIVE ImagesLoop(_, _, _, _)
\* for img in data["images"], from the i-th image on: record old id -> new
\* id and overwrite the image's id; stops at the first file name from which
\* no frame number can be extracted
ImagesLoop(store, data, i, old_to_new_id) ==
    IF i > Len(store[data].images)
    THEN [raised |-> FALSE, store |-> store, old_to_new_id |-> old_to_new_id]
    ELSE Only({
           IF new_img_id.raised
           THEN [raised |-> TRUE, error |-> new_img_id.error, store |-> store]
           ELSE Only({ ImagesLoop(updated, data, i + 1, mapped) :
                         mapped \in { DictSet(old_to_new_id, old_img_id, new_img_id.value) },
                         updated \in { [store EXCEPT ![data].images[i].id = new_img_id.value] } })
           : old_img_id \in { store[data].images[i].id },
             new_img_id \in { ExtractFrameNumber(store[data].images[i].file_name,
                                                 POSEINTERFACE_FRAME_REGEXP) } })

\* len(old_to_new_id) != len(set(old_to_new_id.values()))
IdsNotUnique(old_to_new_id) ==
    Cardinality(DOMAIN old_to_new_id)
      # Cardinality({ old_to_new_id[k] : k \in DOMAIN old_to_new_id })

\* a remapping that leaves the annotations as they are
AnnotationsLoopSkipped(store, data, i, old_to_new_id) ==
    [raised |-> FALSE, store |-> store]

RECURSIVE AnnotationsLoop(_, _, _, _)
\* for annot in data["annotations"], from the i-th annotation on: replace
\* image_id by old_to_new_id[image_id]
AnnotationsLoop(store, data, i, old_to_new_id) ==
    IF i > Len(store[data].annotations)
    THEN [raised |-> FALSE, store |-> store]
    ELSE Only({
           IF key \notin DOMAIN old_to_new_id
           THEN [raised |-> TRUE, error |-> KeyError(key), store |-> store]
           ELSE Only({ AnnotationsLoop(updated, data, i + 1, old_to_new_id) :
                         updated \in { [store EXCEPT ![data].annotations[i].image_id =
                                                        old_to_new_id[key]] } })
           : key \in { store[data].annotations[i].image_id } })

\* the rest of _update_image_ids once the images are scanned: the
\* uniqueness check, then the annotations
AfterImages(imgs, data) ==
    IF imgs.raised
    THEN [raised |-> TRUE, error |-> imgs.error, store |-> imgs.store]
    ELSE IF IdsNotUnique(imgs.old_to_new_id)
         THEN [raised |-> TRUE, error |-> NotUniqueError, store |-> imgs.store]
         ELSE Only({ IF annots.raised
                     THEN [raised |-> TRUE, error |-> annots.error, store |-> annots.store]
                     ELSE [raised |-> FALSE, value |-> annots.store[data],
                           store |-> annots.store]
                     : annots \in { AnnotationsLoop(imgs.store, data, 1, imgs.old_to_new_id) } })

\* _update_image_ids(input_data), where input_data is a reference into
\* store: the outcome (the returned document or the raised error) and the
\* store the call leaves behind
UpdateImageIdsIn(store, input_data) ==
    Only({ Only({ AfterImages(imgs, copy.ref) :
                    imgs \in { ImagesLoop(copy.store, copy.ref, 1, <<>>) } })
           : copy \in { DeepCopy(store, input_data) } })

\* _update_image_ids called on a document held by the caller (reference 1):
\* the outcome and the caller's document after the call
UpdateImageIds(doc) ==
    Only({ IF r.raised
           THEN [raised |-> TRUE, error |-> r.error, input_after |-> r.store[1]]
           ELSE [raised |-> FALSE, value |-> r.value, input_after |-> r.store[1]]
           : r \in { UpdateImageIdsIn(<<doc>>, 1) } })

(***************************************************************************)
(* Label sets, as sio.load_file returns them, and the schema conversion    *)
(* coco.convert_labels of sleap-io, as annotations_to_coco uses it.        *)
(***************************************************************************)
\* the decimal digit of n, for n in 0..9
DigitChar(n) == CHOOSE c \in DigitChars : DigitVal(c) = n

\* the image paths of the one video the labeled frames belong to (a DLC
\* video is a list of image paths): img0.png, img1.png, ...
VideoFilename == [k \in 1..MaxFrames |-> IMG \o <<DigitChar(k - 1)>> \o PNG]

\* a label set with n labeled frames (frame_idx 0, 1, ...) whose list of
\* videos has v entries
LabelSet(n, v) ==
    [labeled_frames |-> [i \in 1..n |-> [frame_idx |-> i - 1]],
     videos |-> [j \in 1..v |-> j]]

LabelSets == { LabelSet(n, v) : n \in 0..MaxFrames, v \in 0..MaxVideos }

NoLabels == LabelSet(0, 0)
NoDoc == [images |-> <<>>, annotations |-> <<>>]

\* the files an input path may name: one that sio.load_file cannot parse,
\* or one that loads to a label set and is or is not a DLC file
InputFiles ==
    { [loadable |-> FALSE, labels |-> NoLabels, is_dlc |-> FALSE] }
      \cup [loadable : {TRUE}, labels : LabelSets, is_dlc : BOOLEAN]

\* file names a caller passes as coco_image_filenames: sub_frame-042.png
\* and frame-1.png
CallerFileNames ==
    { <<"s", "_">> \o FRAME \o <<"0", "4", "2">> \o PNG, FRAME \o <<"1">> \o PNG }

\* the values of coco_image_filenames: None or a list of file names
ImageFilenameArgs ==
    { None } \cup { Some(l) : l \in SeqUpTo(CallerFileNames, MaxFrames) }

VisibilityEncodings == {"ternary", "binary"}

\* a schema conversion that names the images after the frames' image paths
\* whatever names it is given
ConvertLabelsIgnoresNames(labels, image_filenames, visibility_encoding) ==
    LET n == Len(labels.labeled_frames)
    IN [raised |-> FALSE,
        value |->
          [images |->
             [i \in 1..n |->
                [id |-> i - 1,
                 file_name |-> VideoFilename[labels.labeled_frames[i].frame_idx + 1]]],
           annotations |-> [i \in 1..n |-> [id |-> i - 1, image_id |-> i - 1]]]]

\* coco.convert_labels(labels, image_filenames, visibility_encoding): one
\* image per labeled frame, in order, with a 0-based index as id; the file
\* name is the given one or, without given names, the frame's image path;
\* one annotation per labeled frame pointing at its image.  A list of names
\* of the wrong length is refused.
ConvertLabels(labels, image_filenames, visibility_encoding) ==
    LET n == Len(labels.labeled_frames)
    IN IF image_filenames.some /\ Len(image_filenames.val) # n
       THEN [raised |-> TRUE,
             error |-> [kind |-> "ValueError",
                        msg |-> << "image_filenames must match the number of labeled frames" >>]]
       ELSE [raised |-> FALSE,
             value |->
               [images |->
                  [i \in 1..n |->
                     [id |-> i - 1,
                      file_name |->
                        IF image_filenames.some THEN image_filenames.val[i]
                        ELSE VideoFilename[labels.labeled_frames[i].frame_idx + 1]]],
                annotations |-> [i \in 1..n |-> [id |-> i - 1, image_id |-> i - 1]]]]

(***************************************************************************)
(* The caller of examples/SWC-plusmaze_to_benchmark.py, which builds the   *)
(* file names it passes as coco_image_filenames.                           *)
(***************************************************************************)
\* video_id = f"sub-{subject_id}_ses-{session_id}_view-{view_id}" with
\* subject_id "M708149", session_id "20200317", view_id "topdown"
VIDEO_ID ==
    << "s", "u", "b", "-", "M", "7", "0", "8", "1", "4", "9",
       "_", "s", "e", "s", "-", "2", "0", "2", "0", "0", "3", "1", "7",
       "_", "v", "i", "e", "w", "-", "t", "o", "p", "d", "o", "w", "n" >>

\* the positions of the character c in s
PositionsOf(s, c) == { i \in 1..Len(s) : s[i] = c }

\* the largest element of a non-empty set of numbers
Last(S) == CHOOSE i \in S : \A j \in S : j <= i

\* Path(path).stem: the last component of the path, without its last
\* suffix (a dot that begins or ends the name starts no suffix)
Stem(path) ==
    LET slashes == PositionsOf(path, "/")
        name == IF slashes = {} THEN path
                ELSE SubSeq(path, Last(slashes) + 1, Len(path))
        dots == PositionsOf(name, ".")
    IN IF dots # {} /\ Last(dots) > 1 /\ Last(dots) < Len(name)
       THEN SubSeq(name, 1, Last(dots) - 1)
       ELSE name

RECURSIVE StrReplace(_, _, _)
\* s.replace(old, new) for a non-empty old: every occurrence, left to right
StrReplace(s, old, new) ==
    IF s = <<>> THEN <<>>
    ELSE IF LitAt(s, old, 1)
         THEN new \o StrReplace(SubSeq(s, Len(old) + 1, Len(s)), old, new)
         ELSE <<s[1]>> \o StrReplace(Tail(s), old, new)

\* the list coco_image_filenames of the example: for each labeled frame, in
\* order, f"{video_id}_frame-{frame_number}.png" where frame_number is the
\* stem of the frame's image path without "img"
CocoImageFilenames(labels) ==
    [i \in 1..Len(labels.labeled_frames) |->
        VIDEO_ID \o <<"_">> \o FRAME
          \o StrReplace(Stem(VideoFilename[labels.labeled_frames[i].frame_idx + 1]),
                        IMG, <<>>)
          \o PNG]

(***************************************************************************)
(* annotations_to_coco                                                     *)
(***************************************************************************)
\* _EMPTY_LABELS_ERROR_MSG
EMPTY_LABELS_ERROR_MSG ==
    [default |-> "No annotations could be extracted from the input file. Please check that the input file contains labeled frames. ",
     dlc |-> "Ensure that the paths to the labelled frames are in the standard DLC project format: labeled-data / <video-name> / <filename-with-frame-number>.<extension> and that the frames files exist."]

\* the DLC explanation appended whatever the source is
EmptyLabelsErrorAlwaysDlc(is_dlc) ==
    [kind |-> "ValueError",
     msg |-> << EMPTY_LABELS_ERROR_MSG.default, EMPTY_LABELS_ERROR_MSG.dlc >>]

\* error_msg = default; if is_dlc_file(input_path): error_msg += dlc
EmptyLabelsError(is_dlc) ==
    [kind |-> "ValueError",
     msg |-> << EMPTY_LABELS_ERROR_MSG.default >>
               \o (IF is_dlc THEN << EMPTY_LABELS_ERROR_MSG.dlc >> ELSE <<>>)]

\* the message of the single-video check, n = len(labels.videos)
MultipleVideosError(n) ==
    [kind |-> "ValueError",
     msg |-> << "The annotations refer to multiple videos ", "(n=", n, "). ",
                "Please check that the input file contains annotations for a single video only." >>]

\* a single-video check that is off by one
NotSingleVideoOffByOne(labels) == Len(labels.videos) > 2

\* if len(labels.videos) > 1
NotSingleVideo(labels) == Len(labels.videos) > 1

OUTPUT_JSON_PATH == "output.json"

\* the defaults of the keyword parameters: coco_image_filenames = None,
\* coco_visibility_encoding = "ternary"
DEFAULTS ==
    [coco_image_filenames |-> None, coco_visibility_encoding |-> "ternary"]

VARIABLES
    pc,         \* where the running call of annotations_to_coco stands
    call,       \* its arguments
    labels,     \* its local: the loaded label set
    coco_data,  \* its local: the COCO dict
    result,     \* how it ended: the returned path or the raised error
    log,        \* the calls it made to its collaborators, in order
    file,       \* the artifact at the output path
    file_before, \* history: the artifact when the running call began
    repeated,   \* history: the running call repeats, with identical
                \* arguments, the successful call that ended just before it
    fn          \* the last direct call of a helper and its outcome

vars == <<pc, call, labels, coco_data, result, log, file, file_before, repeated, fn>>

NoCall ==
    [input_path |-> [loadable |-> FALSE, labels |-> NoLabels, is_dlc |-> FALSE],
     output_json_path |-> OUTPUT_JSON_PATH,
     coco_image_filenames |-> None,
     coco_visibility_encoding |-> "ternary"]

NoResult == [kind |-> "none"]
Returned(v) == [kind |-> "returned", value |-> v]
Raised(e) == [kind |-> "raised", error |-> e]

Absent == [state |-> "absent", doc |-> NoDoc]

Init ==
    /\ pc = "idle"
    /\ call = NoCall
    /\ labels = NoLabels
    /\ coco_data = NoDoc
    /\ result = NoResult
    /\ log = <<>>
    /\ file = Absent
    /\ file_before = Absent
    /\ repeated = FALSE
    /\ fn = [name |-> "none"]

\* a caller invokes annotations_to_coco(input_path, output_json_path,
\* coco_image_filenames=..., coco_visibility_encoding=...)
Call ==
    /\ pc = "idle"
    /\ fn.name = "none"
    /\ \E input \in InputFiles, names \in ImageFilenameArgs, enc \in VisibilityEncodings :
         call' = [input_path |-> input,
                  output_json_path |-> OUTPUT_JSON_PATH,
                  coco_image_filenames |-> names,
                  coco_visibility_encoding |-> enc]
    /\ pc' = "load"
    /\ file_before' = file
    /\ repeated' = FALSE
    /\ UNCHANGED <<labels, coco_data, result, log, file, fn>>

\* a call without keyword arguments, as test_annotations_to_coco makes it:
\* the keywords take their defaults
CallWithDefaults ==
    /\ pc = "idle"
    /\ fn.name = "none"
    /\ \E input \in InputFiles :
         call' = [input_path |-> input,
                  output_json_path |-> OUTPUT_JSON_PATH,
                  coco_image_filenames |-> DEFAULTS.coco_image_filenames,
                  coco_visibility_encoding |-> DEFAULTS.coco_visibility_encoding]
    /\ pc' = "load"
    /\ file_before' = file
    /\ repeated' = FALSE
    /\ UNCHANGED <<labels, coco_data, result, log, file, fn>>

\* the example script: it loads the annotations (and stops there when they
\* do not load), builds the new file names and calls annotations_to_coco
\* with them and coco_visibility_encoding="ternary"
CallFromExample ==
    /\ pc = "idle"
    /\ fn.name = "none"
    /\ \E input \in InputFiles :
         /\ input.loadable
         /\ call' = [input_path |-> input,
                     output_json_path |-> OUTPUT_JSON_PATH,
                     coco_image_filenames |-> Some(CocoImageFilenames(input.labels)),
                     coco_visibility_encoding |-> "ternary"]
    /\ pc' = "load"
    /\ file_before' = file
    /\ repeated' = FALSE
    /\ UNCHANGED <<labels, coco_data, result, log, file, fn>>

\* the caller of a call that has just returned invokes annotations_to_coco
\* again with the same arguments: same input file, same output path, same
\* keyword arguments
CallAgain ==
    /\ pc = "done"
    /\ pc' = "load"
    /\ labels' = NoLabels
    /\ coco_data' = NoDoc
    /\ result' = NoResult
    /\ log' = <<>>
    /\ file_before' = file
    /\ repeated' = TRUE
    /\ UNCHANGED <<call, file, fn>>

\* labels = sio.load_file(input_path); a parse error propagates
Load ==
    /\ pc = "load"
    /\ log' = Append(log, [op |-> "load_file", path |-> call.input_path])
    /\ IF call.input_path.loadable
       THEN /\ labels' = call.input_path.labels
            /\ pc' = "check_empty"
            /\ UNCHANGED result
       ELSE /\ result' = Raised([kind |-> "LoadError", msg |-> << "cannot parse the input file" >>])
            /\ pc' = "error"
            /\ UNCHANGED labels
    /\ UNCHANGED <<call, coco_data, file, file_before, repeated, fn>>

\* the two validations in the other order: the single-video check first
CheckVideosBeforeEmpty ==
    /\ pc = "check_empty"
    /\ IF NotSingleVideo(labels)
       THEN /\ result' = Raised(MultipleVideosError(Len(labels.videos)))
            /\ pc' = "error"
            /\ UNCHANGED log
       ELSE IF Len(labels.labeled_frames) = 0
            THEN /\ log' = Append(log, [op |-> "is_dlc_file"])
                 /\ result' = Raised(EmptyLabelsError(call.input_path.is_dlc))
                 /\ pc' = "error"
            ELSE /\ pc' = "check_videos"
                 /\ UNCHANGED <<result, log>>
    /\ UNCHANGED <<call, labels, coco_data, file, file_before, repeated, fn>>

\* if len(labels.labeled_frames) == 0: raise ValueError(error_msg)
CheckEmpty ==
    /\ pc = "check_empty"
    /\ IF Len(labels.labeled_frames) = 0
       THEN /\ log' = Append(log, [op |-> "is_dlc_file"])
            /\ result' = Raised(EmptyLabelsError(call.input_path.is_dlc))
            /\ pc' = "error"
       ELSE /\ pc' = "check_videos"
            /\ UNCHANGED <<result, log>>
    /\ UNCHANGED <<call, labels, coco_data, file, file_before, repeated, fn>>

\* if len(labels.videos) > 1: raise ValueError(...)
CheckVideos ==
    /\ pc = "check_videos"
    /\ IF NotSingleVideo(labels)
       THEN /\ result' = Raised(MultipleVideosError(Len(labels.videos)))
            /\ pc' = "error"
       ELSE /\ pc' = "convert"
            /\ UNCHANGED result
    /\ UNCHANGED <<call, labels, coco_data, log, file, file_before, repeated, fn>>

\* the image-id update of annotations_to_coco: the call of
\* _update_image_ids is commented out, the dict is used as converted
UpdateStep(data) == [raised |-> FALSE, value |-> data]

\* a conversion that is always asked for the ternary encoding, whatever
\* the caller chose
ConvertAlwaysTernary ==
    /\ pc = "convert"
    /\ log' = Append(log, [op |-> "convert_labels",
                           labels |-> labels,
                           image_filenames |-> call.coco_image_filenames,
                           visibility_encoding |-> "ternary"])
    /\ LET converted == ConvertLabels(labels, call.coco_image_filenames, "ternary")
       IN IF converted.raised
          THEN /\ result' = Raised(converted.error)
               /\ pc' = "error"
               /\ UNCHANGED coco_data
          ELSE /\ coco_data' = UpdateStep(converted.value).value
               /\ pc' = "open"
               /\ UNCHANGED result
    /\ UNCHANGED <<call, labels, file, file_before, repeated, fn>>

\* coco_data = coco.convert_labels(...), then the image-id update
Convert ==
    /\ pc = "convert"
    /\ log' = Append(log, [op |-> "convert_labels",
                           labels |-> labels,
                           image_filenames |-> call.coco_image_filenames,
                           visibility_encoding |-> call.coco_visibility_encoding])
    /\ LET converted == ConvertLabels(labels, call.coco_image_filenames,
                                      call.coco_visibility_encoding)
       IN IF converted.raised
          THEN /\ result' = Raised(converted.error)
               /\ pc' = "error"
               /\ UNCHANGED coco_data
          ELSE LET updated == UpdateStep(converted.value)
               IN IF updated.raised
                  THEN /\ result' = Raised(updated.error)
                       /\ pc' = "error"
                       /\ UNCHANGED coco_data
                  ELSE /\ coco_data' = updated.value
                       /\ pc' = "open"
                       /\ UNCHANGED result
    /\ UNCHANGED <<call, labels, file, file_before, repeated, fn>>

\* open(output_json_path, "w"): creates the file or truncates it to empty
OpenOk ==
    /\ pc = "open"
    /\ log' = Append(log, [op |-> "open", path |-> call.output_json_path, mode |-> "w"])
    /\ file' = [state |-> "empty", doc |-> NoDoc]
    /\ pc' = "dump"
    /\ UNCHANGED <<call, labels, coco_data, result, file_before, repeated, fn>>

\* open(output_json_path, "w") raises OSError (no such directory, no
\* permission): nothing is created
OpenFails ==
    /\ pc = "open"
    /\ log' = Append(log, [op |-> "open", path |-> call.output_json_path, mode |-> "w"])
    /\ result' = Raised([kind |-> "OSError", msg |-> << "cannot open the output file" >>])
    /\ pc' = "error"
    /\ UNCHANGED <<call, labels, coco_data, file, file_before, repeated, fn>>

\* a dump into a file opened for appending: the document is added to what
\* the file held when the call began
DumpAppends ==
    /\ pc = "dump"
    /\ log' = Append(log, [op |-> "dump", data |-> coco_data])
    /\ file' = [state |-> "written",
                doc |-> [images |-> file_before.doc.images \o coco_data.images,
                         annotations |-> file_before.doc.annotations
                                           \o coco_data.annotations]]
    /\ result' = Returned(call.output_json_path)
    /\ pc' = "done"
    /\ UNCHANGED <<call, labels, coco_data, file_before, repeated, fn>>

\* json.dump(coco_data, f) and the end of the with block; return
\* output_json_path
DumpOk ==
    /\ pc = "dump"
    /\ log' = Append(log, [op |-> "dump", data |-> coco_data])
    /\ file' = [state |-> "written", doc |-> coco_data]
    /\ result' = Returned(call.output_json_path)
    /\ pc' = "done"
    /\ UNCHANGED <<call, labels, coco_data, file_before, repeated, fn>>

\* json.dump raises (a value json cannot serialize, a failed write): the
\* with block closes the file, which holds what was written so far
DumpFails ==
    /\ pc = "dump"
    /\ log' = Append(log, [op |-> "dump", data |-> coco_data])
    /\ file' = [state |-> "partial", doc |-> NoDoc]
    /\ result' = Raised([kind |-> "TypeError", msg |-> << "Object is not JSON serializable" >>])
    /\ pc' = "error"
    /\ UNCHANGED <<call, labels, coco_data, file_before, repeated, fn>>

\* the caller takes the result; the locals of the call are gone
Return ==
    /\ pc \in {"done", "error"}
    /\ pc' = "idle"
    /\ call' = NoCall
    /\ labels' = NoLabels
    /\ coco_data' = NoDoc
    /\ result' = NoResult
    /\ log' = <<>>
    /\ file_before' = file
    /\ repeated' = FALSE
    /\ UNCHANGED <<file, fn>>

(***************************************************************************)
(* Direct calls of the helpers, as the unit tests make them.               *)
(***************************************************************************)
\* the strings of at most MaxDigits digits 0, 1, 2
DigitStrings == SeqUpTo({"0", "1", "2"}, MaxDigits)

\* file names built as <before> <head> <digits> <after>: the head is
\* "frame-", "img" or "frame"; before it nothing, "s_", "frame-x" (a place
\* where the default pattern fails after its literal) or "frame-2_" (an
\* earlier match)
GeneratedFileNames ==
    { before \o head \o ds \o after :
        before \in { <<>>, <<"s", "_">>, FRAME \o <<"x">>, FRAME \o <<"2", "_">> },
        head \in { FRAME, IMG, <<"f", "r", "a", "m", "e">> },
        ds \in DigitStrings,
        after \in { <<>>, PNG, <<"a", "b">> } }

\* file names of the unit tests: frame-234, frame-0234, frame-0234abcd,
\* frame-00000.png, img0000.png, img0234.png
TestFileNames ==
    { FRAME \o <<"2", "3", "4">>,
      FRAME \o <<"0", "2", "3", "4">>,
      FRAME \o <<"0", "2", "3", "4", "a", "b", "c", "d">>,
      FRAME \o <<"0", "0", "0", "0", "0">> \o PNG,
      IMG \o <<"0", "0", "0", "0">> \o PNG,
      IMG \o <<"0", "2", "3", "4">> \o PNG }

FileNames == GeneratedFileNames \cup TestFileNames

\* _extract_frame_number(filename, frame_regexp) is called
CallExtractFrameNumber ==
    /\ pc = "idle"
    /\ fn.name = "none"
    /\ \E filename \in FileNames, frame_regexp \in Patterns :
         fn' = [name |-> "_extract_frame_number",
                filename |-> filename,
                frame_regexp |-> frame_regexp,
                outcome |-> ExtractFrameNumber(filename, frame_regexp)]
    /\ UNCHANGED <<pc, call, labels, coco_data, result, log, file, file_before, repeated>>

\* _update_image_ids(input_data) is called
CallUpdateImageIds ==
    /\ pc = "idle"
    /\ fn.name = "none"
    /\ \E input_data \in Docs :
         LET r == UpdateImageIds(input_data)
         IN fn' = [name |-> "_update_image_ids",
                   input_data |-> input_data,
                   input_after |-> r.input_after,
                   outcome |-> IF r.raised
                               THEN [raised |-> TRUE, error |-> r.error]
                               ELSE [raised |-> FALSE, value |-> r.value]]
    /\ UNCHANGED <<pc, call, labels, coco_data, result, log, file, file_before, repeated>>

\* the caller takes the helper's outcome
FnReturn ==
    /\ fn.name # "none"
    /\ fn' = [name |-> "none"]
    /\ UNCHANGED <<pc, call, labels, coco_data, result, log, file, file_before, repeated>>

Next ==
    \/ Call
    \/ CallWithDefaults
    \/ CallFromExample
    \/ CallAgain
    \/ Load
    \/ CheckEmpty
    \/ CheckVideos
    \/ Convert
    \/ OpenOk
    \/ OpenFails
    \/ DumpOk
    \/ DumpFails
    \/ Return
    \/ CallExtractFrameNumber
    \/ CallUpdateImageIds
    \/ FnReturn

Spec == Init /\ [][Next]_vars

(***************************************************************************)
(* Properties.                                                             *)
(***************************************************************************)
\* every annotation's image_id is the id of some image of the document
RefIntegrity(doc) ==
    \A a \in 1..Len(doc.annotations) :
        \E i \in 1..Len(doc.images) : doc.images[i].id = doc.annotations[a].image_id

\* the running call of annotations_to_coco loaded a label set
Loaded == pc # "idle" /\ call.input_path.loadable
CallFrames == Len(call.input_path.labels.labeled_frames)
CallVideos == Len(call.input_path.labels.videos)

\* the running call holds a label set with labeled frames whose list of
\* videos is empty (the case of C6)
ZeroVideoCall == Loaded /\ CallFrames >= 1 /\ CallVideos = 0

\* C1: after a successful annotations_to_coco, every image of the written
\* document whose file name holds a frame number (pattern frame-(\d+)) has
\* that number as its id (label sets without a video set aside).
C1_ImageIdIsFrameNumber ==
    (pc = "done" /\ ~ZeroVideoCall) =>
        \A i \in 1..Len(file.doc.images) :
            LET number == ExtractFrameNumber(file.doc.images[i].file_name,
                                             POSEINTERFACE_FRAME_REGEXP)
            IN ~number.raised => file.doc.images[i].id = number.value

\* C2: the document a successful annotations_to_coco writes has
\* referential integrity (every annotation's image_id is an image id), and
\* _update_image_ids preserves it: when it holds of the input document, it
\* holds of the returned one.
C2_ReferentialIntegrity ==
    /\ pc = "done" => file.state = "written" /\ RefIntegrity(file.doc)
    /\ (fn.name = "_update_image_ids" /\ ~fn.outcome.raised
          /\ RefIntegrity(fn.input_data))
         => RefIntegrity(fn.outcome.value)

\* C2 witness: _update_image_ids returned a document for an input with
\* annotations, referential integrity and image ids that had to change
C2_Witness ==
    /\ fn.name = "_update_image_ids"
    /\ ~fn.outcome.raised
    /\ Len(fn.input_data.annotations) = MaxImages
    /\ Len(fn.input_data.images) = MaxImages
    /\ RefIntegrity(fn.input_data)
    /\ fn.input_data.images[1].id # fn.input_data.images[2].id
    /\ fn.input_data.annotations[1].image_id # fn.input_data.annotations[2].image_id
    /\ \A i \in 1..Len(fn.input_data.images) :
          fn.outcome.value.images[i].id # fn.input_data.images[i].id

\* the frame numbers of the images of a document, where the default
\* pattern matches
FrameNumberOf(img) == ExtractFrameNumber(img.file_name, POSEINTERFACE_FRAME_REGEXP)

\* C3: when two images of the input resolve to the same frame number (and
\* every image resolves to one), _update_image_ids raises "Extracted image
\* IDs are not unique"; every document it returns has pairwise distinct
\* image ids.
C3_DuplicateFramesRejected ==
    fn.name = "_update_image_ids" =>
        LET imgs == fn.input_data.images
            resolved == \A i \in 1..Len(imgs) : ~FrameNumberOf(imgs[i]).raised
            duplicate == \E i, j \in 1..Len(imgs) :
                            /\ i # j
                            /\ FrameNumberOf(imgs[i]).value = FrameNumberOf(imgs[j]).value
        IN /\ (resolved /\ duplicate) =>
                 /\ fn.outcome.raised
                 /\ fn.outcome.error = NotUniqueError
           /\ ~fn.outcome.raised =>
                 \A i, j \in 1..Len(fn.outcome.value.images) :
                     i # j => fn.outcome.value.images[i].id # fn.outcome.value.images[j].id

\* C4: a loaded label set without labeled frames ends the call with the
\* no-annotations ValueError, whose message is the generic text followed by
\* the DLC layout text exactly when the input is a DLC file.
C4_EmptyLabelsMessage ==
    (Loaded /\ CallFrames = 0) =>
        /\ pc \in {"load", "check_empty", "error"}
        /\ pc = "error" =>
             /\ result.kind = "raised"
             /\ result.error.kind = "ValueError"
             /\ result.error.msg[1] = EMPTY_LABELS_ERROR_MSG.default
             /\ call.input_path.is_dlc =>
                  /\ Len(result.error.msg) = 2
                  /\ result.error.msg[2] = EMPTY_LABELS_ERROR_MSG.dlc
             /\ ~call.input_path.is_dlc => Len(result.error.msg) = 1

\* C4 witness: the call failed on an empty label set from a DLC file, with
\* the two-part message
C4_Witness ==
    /\ pc = "error"
    /\ Loaded /\ CallFrames = 0 /\ call.input_path.is_dlc
    /\ result.error.msg = << EMPTY_LABELS_ERROR_MSG.default, EMPTY_LABELS_ERROR_MSG.dlc >>

\* the running call ran the schema conversion
ConversionRan == \E k \in 1..Len(log) : log[k].op = "convert_labels"

\* C5: a loaded label set with labeled frames and n > 1 videos ends the
\* call with the multiple-videos ValueError reporting n; the schema
\* conversion is not run and the output file is left as it was.
C5_MultipleVideosRejected ==
    (Loaded /\ CallFrames >= 1 /\ CallVideos > 1) =>
        /\ pc \in {"load", "check_empty", "check_videos", "error"}
        /\ ~ConversionRan
        /\ file = file_before
        /\ pc = "error" =>
             /\ result.kind = "raised"
             /\ result.error.kind = "ValueError"
             /\ result.error.msg[1] = "The annotations refer to multiple videos "
             /\ result.error.msg[3] = CallVideos

\* C5 witness: the call failed on a label set with two videos, reporting 2
C5_Witness ==
    /\ pc = "error"
    /\ Loaded /\ CallFrames >= 1 /\ CallVideos = 2
    /\ result.error.msg[3] = 2

\* C6: a call that reaches the schema conversion or the write holds a label
\* set with exactly one video.
C6_ExactlyOneVideo ==
    pc \in {"convert", "open", "dump", "done"} => Len(labels.videos) = 1

\* C7: the empty-label-set check comes first: a label set without labeled
\* frames and with more than one video fails with the no-annotations error,
\* and the single-video check is reached only with a labeled frame.
C7_EmptyCheckedFirst ==
    /\ (Loaded /\ CallFrames = 0 /\ CallVideos > 1 /\ pc = "error") =>
          /\ result.kind = "raised"
          /\ result.error.msg[1] = EMPTY_LABELS_ERROR_MSG.default
          /\ result.error.msg[1] # "The annotations refer to multiple videos "
    /\ pc = "check_videos" => Len(labels.labeled_frames) >= 1

\* C7 witness: a label set without labeled frames and with two videos was
\* refused with the no-annotations error
C7_Witness ==
    /\ pc = "error"
    /\ Loaded /\ CallFrames = 0 /\ CallVideos = 2
    /\ result.error.msg[1] = EMPTY_LABELS_ERROR_MSG.default

\* C8: a call that ends in an error leaves the artifact at the output path
\* as it was when the call began, and the artifact is touched only after
\* the validations and the schema conversion (label sets without a video
\* set aside).
C8_NoWriteOnFailure ==
    ~ZeroVideoCall =>
        /\ pc = "error" => file = file_before
        /\ file # file_before => (pc \in {"dump", "done", "error"} /\ ConversionRan)

\* the pattern has no match anywhere in the string
NoMatch(s, pat) == \A i \in 1..(Len(s) + 1) : ~MatchAt(s, pat, i)

\* the images of a document whose file name the default pattern does not
\* match
Unmatched(doc) ==
    { i \in 1..Len(doc.images) :
        NoMatch(doc.images[i].file_name, POSEINTERFACE_FRAME_REGEXP) }

LeftmostMatch(s, pat) ==
    CHOOSE i \in 1..(Len(s) + 1) :
        MatchAt(s, pat, i) /\ \A j \in 1..(i - 1) : ~MatchAt(s, pat, j)

\* the digits after the literal of the match at position i: the longest run
CapturedDigits(s, pat, i) ==
    LET g == i + Len(pat.lit)
        e == CHOOSE k \in (g - 1)..Len(s) :
                 /\ \A j \in g..k : s[j] \in DigitChars
                 /\ k < Len(s) => s[k + 1] \notin DigitChars
    IN SubSeq(s, g, e)

RECURSIVE Power10(_)
Power10(k) == IF k = 0 THEN 1 ELSE 10 * Power10(k - 1)

RECURSIVE PlaceValueSum(_, _)
\* the decimal value of a digit string: the sum of digit * 10^place over
\* the positions from k on
PlaceValueSum(ds, k) ==
    IF k > Len(ds) THEN 0
    ELSE DigitVal(ds[k]) * Power10(Len(ds) - k) + PlaceValueSum(ds, k + 1)

RECURSIVE StripZeros(_)
\* a digit string without its leading zeros
StripZeros(ds) ==
    IF ds # <<>> /\ ds[1] = "0" THEN StripZeros(Tail(ds)) ELSE ds

FrameNumberFunction(filename, frame_regexp) ==
    IF NoMatch(filename, frame_regexp)
    THEN [raised |-> TRUE, error |-> NoFrameNumberError(filename, frame_regexp)]
    ELSE LET ds == CapturedDigits(filename, frame_regexp,
                                  LeftmostMatch(filename, frame_regexp))
         IN IF ds = <<>>
            THEN [raised |-> TRUE, error |-> InvalidLiteralError(ds)]
            ELSE [raised |-> FALSE, value |-> PlaceValueSum(ds, 1)]

\* C11: a second call of annotations_to_coco with the arguments of the
\* successful call just before it leaves, when it succeeds, the document at
\* the output path that the first call left: the file is overwritten with
\* the converted document, nothing of the earlier content is kept or
\* appended to; and the outcome of _extract_frame_number is the same for
\* the same file name and pattern in every state it is called in.
C11_IdempotentAndDeterministic ==
    /\ pc = "done" => file = [state |-> "written", doc |-> coco_data]
    /\ (pc = "done" /\ repeated) => file = file_before
    /\ fn.name = "_extract_frame_number" =>
          fn.outcome = FrameNumberFunction(fn.filename, fn.frame_regexp)

\* C11 witness: the second of two identical calls ended and the document
\* of at least two images that the first one wrote is at the output path
C11_Witness ==
    /\ pc = "done"
    /\ repeated
    /\ file_before.state = "written"
    /\ Len(file_before.doc.images) >= 2
    /\ file = file_before

\* the literal parts of the naming convention
\* sub-{subject}_ses-{session}_view-{view}_frame-{frameNumber}.{ext}
SUB == <<"s", "u", "b", "-">>
SES == <<"_", "s", "e", "s", "-">>
VIEW == <<"_", "v", "i", "e", "w", "-">>
FRAME_PART == <<"_">> \o FRAME

\* the file name follows the naming convention: the four literal parts in
\* order, non-empty subject, session, view and extension, and a non-empty
\* run of digits as frame number
IsConventionName(s) ==
    /\ LitAt(s, SUB, 1)
    /\ \E i \in (Len(SUB) + 2)..Len(s) :
          /\ LitAt(s, SES, i)
          /\ \E j \in (i + Len(SES) + 1)..Len(s) :
                /\ LitAt(s, VIEW, j)
                /\ \E k \in (j + Len(VIEW) + 1)..Len(s) :
                      /\ LitAt(s, FRAME_PART, k)
                      /\ \E e \in (k + Len(FRAME_PART) + 1)..(Len(s) - 1) :
                            /\ s[e] = "."
                            /\ \A d \in (k + Len(FRAME_PART))..(e - 1) :
                                  s[d] \in DigitChars

\* the image path of the i-th labeled frame of the running call
SourcePath(i) == VideoFilename[labels.labeled_frames[i].frame_idx + 1]

\* the number embedded in an image path img<digits>.<ext>
SourceNumber(path) == ExtractFrameNumber(path, [lit |-> IMG, group |-> "d*"])

\* the running call was made by the example script
FromExample ==
    call.coco_image_filenames = Some(CocoImageFilenames(call.input_path.labels))

\* the i-th image of the written document is named by the convention, with
\* the number of the i-th frame's image path as frame number
DerivedName(i) ==
    /\ IsConventionName(file.doc.images[i].file_name)
    /\ ~SourceNumber(SourcePath(i)).raised
    /\ FrameNumberOf(file.doc.images[i])
         = [raised |-> FALSE, value |-> SourceNumber(SourcePath(i)).value]

ExampleNamesWritten ==
    /\ pc = "done"
    /\ FromExample
    /\ Len(file.doc.images) >= 2
    /\ file.doc.images[2].file_name = VIDEO_ID \o FRAME_PART \o <<"1">> \o PNG

\* the collaborator calls of a successful annotations_to_coco, in order
LoadCall == [op |-> "load_file", path |-> call.input_path]
ConvertCall ==
    [op |-> "convert_labels",
     labels |-> call.input_path.labels,
     image_filenames |-> call.coco_image_filenames,
     visibility_encoding |-> call.coco_visibility_encoding]
OpenCall == [op |-> "open", path |-> call.output_json_path, mode |-> "w"]

\* C13: a successful annotations_to_coco has called sio.load_file once on
\* input_path, then coco.convert_labels once on the loaded label set with
\* coco_image_filenames and coco_visibility_encoding as the caller gave
\* them (None and "ternary" when the caller gave none), then opened
\* output_json_path once and dumped the converted dict once, and nothing
\* else; it returns output_json_path and the file holds the document.  The
\* validations run after the load and before the conversion, the
\* conversion before the file is opened.
C13_OneLoadOneConvertOneWrite ==
    /\ pc = "done" =>
          /\ Len(log) = 4
          /\ log[1] = LoadCall
          /\ log[2] = ConvertCall
          /\ log[3] = OpenCall
          /\ log[4] = [op |-> "dump", data |-> coco_data]
          /\ coco_data = ConvertLabels(call.input_path.labels,
                                       call.coco_image_filenames,
                                       call.coco_visibility_encoding).value
          /\ result = Returned(call.output_json_path)
          /\ file = [state |-> "written", doc |-> coco_data]
    /\ pc \in {"check_empty", "check_videos", "convert"} =>
          /\ log = << LoadCall >>
          /\ labels = call.input_path.labels
          /\ file = file_before
    /\ pc = "open" => (log = << LoadCall, ConvertCall >> /\ file = file_before)
    /\ pc = "dump" => log = << LoadCall, ConvertCall, OpenCall >>
    /\ pc = "load" => log = <<>>

\* C13 witness: the call of test_annotations_to_coco (no keyword
\* arguments) returned the output path after convert_labels was called
\* with image_filenames=None and visibility_encoding="ternary"
C13_Witness ==
    /\ pc = "done"
    /\ call.coco_image_filenames = None
    /\ call.coco_visibility_encoding = "ternary"
    /\ Len(log) = 4
    /\ log[2].image_filenames = None
    /\ log[2].visibility_encoding = "ternary"
    /\ log[2].labels = call.input_path.labels
    /\ result = Returned(OUTPUT_JSON_PATH)
    /\ file.state = "written"

\* the image ids of the document are pairwise distinct
DistinctImageIds(doc) ==
    \A i, j \in 1..Len(doc.images) : i # j => doc.images[i].id # doc.images[j].id

\* every file name of the document holds a frame number, and no two hold
\* the same
DistinctFrameNumbers(doc) ==
    /\ \A i \in 1..Len(doc.images) : ~FrameNumberOf(doc.images[i]).raised
    /\ \A i, j \in 1..Len(doc.images) :
          i # j => FrameNumberOf(doc.images[i]).value # FrameNumberOf(doc.images[j]).value

\* C14: for an input document with pairwise distinct image ids whose
\* annotations all reference an image, _update_image_ids returns a
\* document exactly when every file name holds a frame number and the
\* frame numbers are distinct; the returned document has the images and
\* the annotations of the input in the same number and order, the i-th
\* image has the frame number of the i-th input file name as id, every
\* annotation has the new id of the image it referenced on input, and
\* file names and annotation ids are those of the input.
C14_RemapsByImage ==
    (fn.name = "_update_image_ids"
       /\ DistinctImageIds(fn.input_data) /\ RefIntegrity(fn.input_data)) =>
        LET input == fn.input_data
        IN /\ ~fn.outcome.raised <=> DistinctFrameNumbers(input)
           /\ ~fn.outcome.raised =>
                LET output == fn.outcome.value
                IN /\ Len(output.images) = Len(input.images)
                   /\ Len(output.annotations) = Len(input.annotations)
                   /\ \A i \in 1..Len(input.images) :
                         /\ output.images[i].file_name = input.images[i].file_name
                         /\ output.images[i].id = FrameNumberOf(input.images[i]).value
                   /\ \A a \in 1..Len(input.annotations) :
                         /\ output.annotations[a].id = input.annotations[a].id
                         /\ \A i \in 1..Len(input.images) :
                               input.images[i].id = input.annotations[a].image_id
                                 => output.annotations[a].image_id = output.images[i].id

\* C14 witness: the images 1: frame-2.png and 2: frame-1.png with
\* annotations on image 2 and image 1 came back as images 2 and 1 with
\* annotations on image 1 and image 2
C14_Witness ==
    /\ fn.name = "_update_image_ids"
    /\ fn.input_data.images
         = << [id |-> 1, file_name |-> FRAME \o <<"2">> \o PNG],
              [id |-> 2, file_name |-> FRAME \o <<"1">> \o PNG] >>
    /\ fn.input_data.annotations
         = << [id |-> 1, image_id |-> 2], [id |-> 2, image_id |-> 1] >>
    /\ ~fn.outcome.raised
    /\ fn.outcome.value.images
         = << [id |-> 2, file_name |-> FRAME \o <<"2">> \o PNG],
              [id |-> 1, file_name |-> FRAME \o <<"1">> \o PNG] >>
    /\ fn.outcome.value.annotations
         = << [id |-> 1, image_id |-> 1], [id |-> 2, image_id |-> 2] >>

\* C15: _update_image_ids leaves the document it is given as it was: when
\* it returns and when it raises (no frame number in a file name,
\* duplicate frame numbers, an annotation without image), the caller's
\* document has the image ids, file names and annotation image_ids it had
\* before the call (the whole document is as it was): the changes are made
\* on the copy.
C15_InputNotModified ==
    fn.name = "_update_image_ids" => fn.input_after = fn.input_data

\* C15 witness: the duplicate frame numbers of images 1: frame-2.png and
\* 2: frame-2.png were refused after the copy's first image was renumbered,
\* and the caller's document still has image ids 1 and 2
C15_Witness ==
    /\ fn.name = "_update_image_ids"
    /\ fn.input_data.images
         = << [id |-> 1, file_name |-> FRAME \o <<"2">> \o PNG],
              [id |-> 2, file_name |-> FRAME \o <<"2">> \o PNG] >>
    /\ fn.outcome.raised
    /\ fn.outcome.error = NotUniqueError
    /\ fn.input_after.images[1].id = 1
    /\ fn.input_after.images[2].id = 2
=============================================================================
